---- MODULE Spec2Model ----
(***************************************************************************)
(* Generation orchestration pipeline of Cineo AI.                          *)
(*                                                                         *)
(* The repository ships two executable stacks over the same data model:    *)
(*   "api": the FastAPI routes (movie_routes.py) with the Celery tasks of   *)
(*          backend/tasks.py and the UserCredit ledger;                     *)
(*   "app": the Flask monolith (app.py) whose create request starts one     *)
(*          background thread per movie (generate_movie_scenes).            *)
(* One deployment runs one of them; Init chooses which.                     *)
(*                                                                         *)
(* Persistent rows are modelled as committed database state.  A request    *)
(* handler that reads rows into its SQLAlchemy session, publishes tasks    *)
(* and commits later is split at the points where other sessions and the   *)
(* broker can interleave; what it has read is kept in its own record.      *)
(* The Celery tasks of backend/tasks.py end at their first statement: it   *)
(* reads a name that the module does not import.                           *)
(***************************************************************************)
EXTENDS Integers, Sequences, FiniteSets, Bags, TLC

\* ------------------------------------------------------------------ bounds
MaxMovies == 1
MaxFinalize == 3
MaxUpdates == 3
MaxQueue == 3
MaxLines == 6

\* ------------------------------------------------------- program constants
CREATE_COST == 40
ASSEMBLY_SURCHARGE == 50
API_SCENE_DEFAULT_CREDITS == 40
APP_SCENE_DEFAULT_CREDITS == 15
DEFAULT_CREDITS == 300

None == "None"
NoneId == 0

STORYBOARD_URL == "storyboard"
VIDEO_URL == "video"
AUDIO_URL == "audio"
STITCHED_VIDEO == "final_movie_with_audio.mp4"
SCENE_VIDEO == "scene_video.mp4"
PLACEHOLDER_VIDEO == "SampleVideo_1280x720_5mb.mp4"
SAMPLE_VIDEO == "SampleVideo_1280x720_1mb.mp4"

\* ------------------------------------------------------------------ inputs
\* lines a collaborator's free text is made of
BLANK_LINE == ""
HEADER_LINE == "Scene 7: The Landing"
DIALOGUE_LINE == "ARIA: We made it."
PROSE_LINE == "The ship descends."
BARE_SCENE_LINE == "Scene 2"
SPEAKER_SCENE_LINE == "ARIA: Scene one is ours."
ScriptLines ==
    {BLANK_LINE, HEADER_LINE, DIALOGUE_LINE, PROSE_LINE, BARE_SCENE_LINE,
     SPEAKER_SCENE_LINE}
ScriptTexts == UNION {[1..n -> ScriptLines] : n \in 0..MaxLines}

\* scene_number lists of the "script" member of a JSON answer
JsonScripts == {<<>>, <<1, 2>>, <<1, 3>>, <<2, 2>>}

\* how a call of the script collaborator can end: no API key configured, a
\* status other than 200, an exception in the call, or an answer
Unavailable == {"no_key", "status_error", "exception"}
Answer(kind, text, script) == [kind |-> kind, text |-> text, script |-> script]
Failures == {Answer(k, <<>>, <<>>) : k \in Unavailable}
\* TextToScriptModel reads every answer as free text
TextToScriptResponses ==
    Failures \cup {Answer("ok", t, <<>>) : t \in ScriptTexts}
\* AIModels looks for a JSON object in the answer
AIModelsResponses ==
    Failures
    \cup {Answer(k, <<>>, <<>>) : k \in {"ok_prose", "ok_bad_json", "ok_json_no_script"}}
    \cup {Answer("ok_json_script", <<>>, j) : j \in JsonScripts}
\* SceneUpdate.action is any string: the two the handler knows and another
UpdateActions == {"accept", "regenerate", "retry"}
\* what AIModels.generate_video returns: the path of the clip it wrote, or
\* the sample URL it substitutes when the animation raises
VideoResults == {VIDEO_URL, SAMPLE_VIDEO}
\* what the assembler meets while it runs: whether the video pipeline is
\* loaded, the scene_numbers whose animation leaves a clip file, whether an
\* animation that leaves none raises after its mkdtemp (in imageio.mimsave)
\* or before it, whether the sound-effect pass writes its enhanced copy,
\* whether the stitch writes its file
AnimatedSets == {{}, {1}, {2, 3}, {1, 2, 3}}
AssemblyEnvs ==
    {[available |-> FALSE, animated |-> {}, mkdtemp |-> FALSE,
      enhanced |-> FALSE, stitched |-> FALSE]}
    \cup [available : {TRUE}, animated : AnimatedSets, mkdtemp : BOOLEAN,
          enhanced : BOOLEAN, stitched : BOOLEAN]

VARIABLES
    stack,        \* which application is deployed: "api" or "app"
    credits,      \* UserCredit.credits (api) / User.credits (app) of the user
    movies,       \* Movie rows, index = id
    scenes,       \* Scene rows, index = id
    queue,        \* Celery broker: bag of task messages
    creators,     \* create_movie handlers between balance check and commit
    updaters,     \* update_scene handlers between load and commit
    finalizers,   \* finalize_movie handlers between dispatch and commit
    threads,      \* app: generate_movie_scenes thread of each movie
    resp,         \* answer to the last create request
    initCredits,  \* history: balance at Init
    fin,          \* history: per movie, one entry per accepted finalize: the total
                  \* it should debit and what its handler debited
    nUpdates,     \* history: number of update_scene requests served
    events,       \* app: what socketio.emit published to the movie rooms, in order
    planner,      \* a generate_script call: the collaborator's answer, the result
    selector,     \* calls of the mood / sound-effect selector on one scene
    images,       \* the generate_storyboard calls made so far, with their results
    socketio,     \* app: movie owners, connected clients and room membership
    assembler     \* one run of the assembler: its locals and the files it wrote

vars == <<stack, credits, movies, scenes, queue, creators, updaters,
          finalizers, threads, resp, initCredits, fin, nUpdates, events,
          planner, selector, images, socketio, assembler>>

\* the variables of the components that are exercised on their own
standalone == <<selector, images, socketio, assembler>>

\* ----------------------------------------------------------------- helpers
RECURSIVE SumCredits(_)
SumCredits(S) ==
    IF S = {} THEN 0
    ELSE LET s == CHOOSE x \in S : TRUE
         IN scenes[s].credits_used + SumCredits(S \ {s})

RECURSIVE SumSeq(_)
SumSeq(q) == IF q = <<>> THEN 0 ELSE Head(q) + SumSeq(Tail(q))

MovieIds == 1..Len(movies)
SceneIds == 1..Len(scenes)
ScenesOf(m) == {s \in SceneIds : scenes[s].movie_id = m}

Put(bag, x) == bag (+) SetToBag({x})
Take(bag, x) == bag (-) SetToBag({x})

SceneTask(id) == [task |-> "generate_movie_scene", arg |-> id, no |-> 0]
FullTask(m, k) == [task |-> "generate_full_movie", arg |-> m, no |-> k]

NewMovie(st) ==
    [status |-> st, video_url |-> None, credits_used |-> 0]

NewScene(m, num, st, cost) ==
    [movie_id |-> m, scene_number |-> num, status |-> st,
     storyboard_url |-> None, video_url |-> None, audio_url |-> None,
     credits_used |-> cost]

Response(op, code) == [op |-> op, code |-> code]

\* no generate_script call is being followed
NoCall == [response |-> [kind |-> None, text |-> <<>>, script |-> <<>>],
           called |-> FALSE, result |-> <<>>]

InsufficientCredits(balance) == balance < CREATE_COST

\* SQLAlchemy unit of work: a commit issues UPDATE only for the columns whose
\* value in the session differs from the value the session loaded.
WriteBack(row, loaded, new) ==
    [f \in DOMAIN row |-> IF new[f] # loaded[f] THEN new[f] ELSE row[f]]

\* ------------------------------------------------------------ script planner
SceneSpec(n, title, description, dialogue) ==
    [scene_number |-> n, title |-> title, description |-> description,
     dialogue |-> dialogue]

\* 'Scene' in line, ':' in line.  No line containing 'Scene' is all digits, so
\* line.isdigit() decides nothing.
HasSceneWord(line) ==
    line \in {HEADER_LINE, BARE_SCENE_LINE, SPEAKER_SCENE_LINE}
HasColon(line) ==
    line \in {HEADER_LINE, DIALOGUE_LINE, SPEAKER_SCENE_LINE}
\* line.replace('Scene', '').strip(' :')
TitleOf(line) ==
    IF line = HEADER_LINE THEN "7: The Landing"
    ELSE IF line = BARE_SCENE_LINE THEN "2"
    ELSE IF line = SPEAKER_SCENE_LINE THEN "ARIA:  one is ours."
    ELSE line

\* TextToScriptModel._parse_script, the loop of lines 127-149 and the flush of
\* lines 151-153.  current_scene is <<>> for None, <<scene>> otherwise; a
\* description is kept as the list of the lines joined into it.
Flush(parsed, current_scene, dialogue_buffer) ==
    IF current_scene # <<>>
    THEN Append(parsed, [current_scene[1] EXCEPT !.dialogue = dialogue_buffer])
    ELSE parsed

RECURSIVE ParseLines(_, _, _, _)
ParseLines(lines, parsed, current_scene, dialogue_buffer) ==
    IF lines = <<>> THEN Flush(parsed, current_scene, dialogue_buffer)
    ELSE LET line == Head(lines)
             rest == Tail(lines)
         IN IF line = BLANK_LINE
            THEN ParseLines(rest, parsed, current_scene, dialogue_buffer)
            ELSE IF HasSceneWord(line) /\ HasColon(line)
            THEN LET closed == Flush(parsed, current_scene, dialogue_buffer)
                 IN ParseLines(rest, closed,
                       <<SceneSpec(Len(closed) + 1, TitleOf(line), <<>>, <<>>)>>,
                       <<>>)
            ELSE IF current_scene # <<>> /\ HasColon(line)
            THEN ParseLines(rest, parsed, current_scene,
                            Append(dialogue_buffer, line))
            ELSE IF current_scene # <<>>
            THEN ParseLines(rest, parsed,
                    <<[current_scene[1] EXCEPT !.description = Append(@, line)]>>,
                    dialogue_buffer)
            ELSE ParseLines(rest, parsed, current_scene, dialogue_buffer)

\* scenes[:5]
FirstFive_Uncapped(q) == q
FirstFive(q) == SubSeq(q, 1, IF Len(q) < 5 THEN Len(q) ELSE 5)
ParseScript(script_text) == FirstFive(ParseLines(script_text, <<>>, <<>>, <<>>))

\* a template that stops after its second scene
GenerateMockScript_TwoScenes ==
    <<SceneSpec(1, "Opening Scene", <<"opening">>, <<"Character 1", "Character 2">>),
      SceneSpec(2, "Middle Scene", <<"conflict">>, <<"Character 1", "Character 2">>)>>
\* TextToScriptModel._generate_mock_script
GenerateMockScript ==
    <<SceneSpec(1, "Opening Scene", <<"opening">>, <<"Character 1", "Character 2">>),
      SceneSpec(2, "Middle Scene", <<"conflict">>, <<"Character 1", "Character 2">>),
      SceneSpec(3, "Climax", <<"peak">>, <<"Character 1", "Character 2">>)>>

\* TextToScriptModel.generate_script: the "script" member of what it returns
GenerateScript(response) ==
    IF response.kind = "ok" THEN ParseScript(response.text)
    ELSE GenerateMockScript

\* AIModels._mock_script
MockScript ==
    <<SceneSpec(1, "Opening Scene", <<"opening">>, <<"PROTAGONIST", "NARRATOR">>),
      SceneSpec(2, "The Challenge", <<"conflict">>, <<"PROTAGONIST", "ANTAGONIST">>),
      SceneSpec(3, "Rising Action", <<"tension">>, <<"PROTAGONIST", "ALLY">>),
      SceneSpec(4, "Climax", <<"confrontation">>, <<"PROTAGONIST", "ANTAGONIST">>),
      SceneSpec(5, "Resolution", <<"resolution">>, <<"PROTAGONIST", "NARRATOR">>)>>

\* AIModels._parse_script: a JSON object with a "script" member is returned as
\* it is, anything else gives the template
JsonScenes(numbers) ==
    [i \in 1..Len(numbers) |-> SceneSpec(numbers[i], "Untitled", <<"json">>, <<>>)]
AppParseScript(response) ==
    IF response.kind = "ok_json_script" THEN JsonScenes(response.script)
    ELSE MockScript

\* AIModels.generate_script
AppGenerateScript(response) ==
    IF response.kind \in Unavailable THEN MockScript
    ELSE AppParseScript(response)

SceneNumbers(script) == [i \in 1..Len(script) |-> script[i].scene_number]

\* answers the create requests of the pipeline meet, and the scene_number
\* lists create gets for them
ApiResponses ==
    {Answer("no_key", <<>>, <<>>),
     Answer("ok", <<HEADER_LINE, PROSE_LINE>>, <<>>),
     Answer("ok", <<PROSE_LINE>>, <<>>)}
AppResponses ==
    {Answer("no_key", <<>>, <<>>),
     Answer("ok_json_script", <<>>, <<1, 2>>),
     Answer("ok_json_script", <<>>, <<1, 3>>),
     Answer("ok_json_script", <<>>, <<1, 2, 3>>)}
ApiScripts == {SceneNumbers(GenerateScript(r)) : r \in ApiResponses}
AppScripts == {SceneNumbers(AppGenerateScript(r)) : r \in AppResponses}
\* a JSON answer with many scenes: the Flask application puts no cap on it
MaxLongScript == 50
LongScripts ==
    {SceneNumbers(AppGenerateScript(
        Answer("ok_json_script", <<>>, [i \in 1..MaxLongScript |-> i])))}

\* ------------------------------------------------ assembler: files on disk
MaxScenesData == 3
\* a directory made by tempfile.mkdtemp(): the one of the assembler (line 399)
\* and the one of each animate_single_image call (line 314)
TempDir == [made_by |-> "generate_multi_scene_video_with_audio", call |-> 0]
ClipDir(i) == [made_by |-> "animate_single_image", call |-> i]
\* the host of the sample videos: a reference that names no local file
Remote == [made_by |-> "sample-videos.com", call |-> 0]
File(dir, name) == [dir |-> dir, name |-> name]
NoFile == File([made_by |-> None, call |-> 0], None)
PlaceholderUrl == File(Remote, PLACEHOLDER_VIDEO)
\* f"scene_enhanced_{len(os.listdir(output_dir))}.mp4"
EnhancedName(files, dir) ==
    "scene_enhanced_"
        \o ToString(Cardinality({f \in files : f.dir = dir})) \o ".mp4"
\* animate_single_image: the clip written to a directory of its own, or the
\* sample URL when the pipeline is missing or raises
AnimateSingleImage(scene, i, env) ==
    IF scene.scene_number \in env.animated
    THEN File(ClipDir(i), SCENE_VIDEO)
    ELSE File(Remote, SAMPLE_VIDEO)
\* the directories that the call leaves behind: line 314 has made the one of
\* the clip when the clip is written, and also when line 319 raises
MadeByAnimation(scene, i, env) ==
    IF scene.scene_number \in env.animated \/ env.mkdtemp
    THEN {ClipDir(i)} ELSE {}
\* _add_sound_effects_to_video: the enhanced copy written to output_dir, or
\* the original path when the pass raises
AddSoundEffectsToVideo(video_path, files, output_dir, env) ==
    IF env.enhanced THEN File(output_dir, EnhancedName(files, output_dir))
    ELSE video_path
\* shutil.rmtree(dir): what is left of a set of files
Rmtree(files, dir) == {f \in files : f.dir # dir}
\* inputs of the assembler: one dict per scene, with the n of its title
\* 'Scene n' and its storyboard reference, in scene_number order
ScenesDataInputs ==
    UNION {{[i \in 1..n |-> [scene_number |-> i, storyboard_url |-> sb[i]]] :
               sb \in [1..n -> {None, STORYBOARD_URL}]} :
           n \in 1..MaxScenesData}
\* the assembler before it is called
NoAssembly ==
    [pc |-> "idle", scenes_data |-> <<>>,
     env |-> [available |-> FALSE, animated |-> {}, mkdtemp |-> FALSE,
              enhanced |-> FALSE, stitched |-> FALSE],
     i |-> 0, video_clips |-> <<>>, dirs |-> {}, files |-> {},
     final_video_path |-> NoFile, result |-> NoFile]

\* ------------------------------------------- mood / sound-effect selector
\* str.lower() on the letters the descriptions use
LowerChar(c) ==
    LET UPPER == "ABCDEFGHIJKLMNOPQRSTUVWXYZ"
        LOWER == "abcdefghijklmnopqrstuvwxyz"
    IN  IF \E i \in 1..Len(UPPER) : SubSeq(UPPER, i, i) = c
        THEN LET i == CHOOSE j \in 1..Len(UPPER) : SubSeq(UPPER, j, j) = c
             IN SubSeq(LOWER, i, i)
        ELSE c
RECURSIVE Lower(_)
Lower(s) ==
    IF s = "" THEN ""
    ELSE LowerChar(SubSeq(s, 1, 1)) \o Lower(SubSeq(s, 2, Len(s)))

\* keyword in description: substring test
Contains(s, keyword) ==
    \E i \in 1..(Len(s) - Len(keyword) + 1) :
        SubSeq(s, i, i + Len(keyword) - 1) = keyword

\* AudioModel._analyze_scene_mood: mood_keywords, in dictionary order
MoodKeywords ==
    << [mood |-> "dramatic",
        keywords |-> <<"dramatic", "intense", "climax", "confrontation",
                       "battle", "fight">>],
       [mood |-> "peaceful",
        keywords |-> <<"peaceful", "calm", "quiet", "serene", "beautiful",
                       "contemplative">>],
       [mood |-> "intense",
        keywords |-> <<"chase", "pursuit", "danger", "threat", "fear",
                       "panic">>],
       [mood |-> "mysterious",
        keywords |-> <<"mystery", "unknown", "strange", "weird", "puzzle",
                       "investigation">>],
       [mood |-> "epic",
        keywords |-> <<"epic", "grand", "heroic", "victory", "triumph",
                       "achievement">>],
       [mood |-> "romantic",
        keywords |-> <<"love", "romance", "kiss", "emotional", "heart",
                       "relationship">>],
       [mood |-> "suspenseful",
        keywords |-> <<"suspense", "tension", "waiting", "anticipation",
                       "uncertainty">>],
       [mood |-> "cheerful",
        keywords |-> <<"happy", "joy", "celebration", "fun", "comedy",
                       "light">>] >>

\* genre_default_moods
GenreDefaultMoods ==
    [g \in {"romance", "horror", "action", "comedy", "fantasy", "sci-fi",
            "drama"} |->
        CASE g = "romance" -> "romantic"
          [] g = "horror"  -> "suspenseful"
          [] g = "action"  -> "intense"
          [] g = "comedy"  -> "cheerful"
          [] g = "fantasy" -> "epic"
          [] g = "sci-fi"  -> "mysterious"
          [] g = "drama"   -> "dramatic"]

\* the two nested loops of _analyze_scene_mood: the first keyword found
RECURSIVE FirstKeyword(_, _)
FirstKeyword(description, keywords) ==
    IF keywords = <<>> THEN FALSE
    ELSE IF Contains(description, Head(keywords)) THEN TRUE
    ELSE FirstKeyword(description, Tail(keywords))
RECURSIVE FirstMood(_, _)
FirstMood(description, categories) ==
    IF categories = <<>> THEN None
    ELSE IF FirstKeyword(description, Head(categories).keywords)
         THEN Head(categories).mood
    ELSE FirstMood(description, Tail(categories))

AnalyzeSceneMood_CaseSensitive(scene_description, movie_genre) ==
    LET found == FirstMood(scene_description, MoodKeywords)
        genre == Lower(movie_genre)
    IN IF found # None THEN found
       ELSE IF genre \in DOMAIN GenreDefaultMoods
            THEN GenreDefaultMoods[genre] ELSE "dramatic"
AnalyzeSceneMood(scene_description, movie_genre) ==
    LET description_lower == Lower(scene_description)
        found == FirstMood(description_lower, MoodKeywords)
        genre == Lower(movie_genre)
    IN IF found # None THEN found
       ELSE IF genre \in DOMAIN GenreDefaultMoods
            THEN GenreDefaultMoods[genre] ELSE "dramatic"

\* AudioModel._calculate_scene_duration: the three keyword lists, in the
\* order they are tested, with the duration each one gives
DurationKeywords ==
    <<[words |-> <<"battle", "chase", "fight", "confrontation">>, duration |-> 45],
      [words |-> <<"looks at", "thinks", "remembers", "pause">>, duration |-> 20],
      [words |-> <<"says", "tells", "asks", "dialogue">>, duration |-> 35]>>
BASE_DURATION == 30
\* the lists with the dialogue words tested before the contemplative ones
DurationKeywords_DialogueFirst ==
    <<DurationKeywords[1], DurationKeywords[3], DurationKeywords[2]>>
\* any(word in description_lower for word in words)
AnyWord(description_lower, words) ==
    \E k \in 1..Len(words) : Contains(description_lower, words[k])
RECURSIVE FirstDuration(_, _)
FirstDuration(description_lower, lists) ==
    IF lists = <<>> THEN BASE_DURATION
    ELSE IF AnyWord(description_lower, Head(lists).words)
    THEN Head(lists).duration
    ELSE FirstDuration(description_lower, Tail(lists))
CalculateSceneDuration_DialogueFirst(scene_description) ==
    FirstDuration(Lower(scene_description), DurationKeywords_DialogueFirst)
CalculateSceneDuration(scene_description) ==
    FirstDuration(Lower(scene_description), DurationKeywords)

\* AudioModel.generate_scene_music: the descriptor stored with the scene.
\* env is how the music collaborator behaves: no API key is configured, it
\* answers 200, it answers another status, or the request raises.  The last
\* two are handled inside generate_genre_music, which returns a stock URL, so
\* that only a missing key gives the background descriptor.
MusicEnvs == {"unavailable", "ok", "status_error", "exception"}
GenerateSceneMusic(scene_description, movie_genre, env) ==
    IF env = "unavailable"
    THEN [music_type |-> "background", mood |-> "neutral"]
    ELSE [music_type |-> "scene_specific",
          mood |-> AnalyzeSceneMood(scene_description, movie_genre)]

\* SoundEffectsModel._analyze_scene_for_sound_effects: sound_effects_map, in
\* dictionary order
SoundEffectsMap ==
    << [keyword |-> "factory",
        effects |-> <<"machinery_hum", "distant_machinery", "factory_ambience">>],
       [keyword |-> "forest",
        effects |-> <<"birds_chirping", "wind_rustling", "forest_ambience">>],
       [keyword |-> "city",
        effects |-> <<"traffic", "city_ambience", "people_talking">>],
       [keyword |-> "space",
        effects |-> <<"space_ambience", "electronic_beeps", "sci_fi_ambience">>],
       [keyword |-> "ocean",
        effects |-> <<"waves", "seagulls", "ocean_ambience">>],
       [keyword |-> "rain",
        effects |-> <<"rain", "thunder", "rain_ambience">>],
       [keyword |-> "night",
        effects |-> <<"crickets", "night_ambience", "distant_dogs">>],
       [keyword |-> "robot",
        effects |-> <<"robotic_movement", "electronic_beeps", "mechanical_whir">>],
       [keyword |-> "door",
        effects |-> <<"door_creak", "door_slam", "door_open">>],
       [keyword |-> "explosion",
        effects |-> <<"explosion", "debris", "shockwave">>],
       [keyword |-> "gunshot",
        effects |-> <<"gunshot", "bullet_whiz", "shell_drop">>],
       [keyword |-> "footsteps",
        effects |-> <<"footsteps", "running", "walking">>],
       [keyword |-> "car",
        effects |-> <<"car_engine", "tires_screeching", "car_horn">>],
       [keyword |-> "computer",
        effects |-> <<"computer_beeps", "typing", "electronic_chime">>],
       [keyword |-> "phone",
        effects |-> <<"phone_ring", "dial_tone", "phone_pickup">>],
       [keyword |-> "scary",
        effects |-> <<"creepy_ambience", "heartbeat", "breathing">>],
       [keyword |-> "happy",
        effects |-> <<"cheerful_music", "laughing", "celebration">>],
       [keyword |-> "sad",
        effects |-> <<"somber_music", "sighing", "emotional_ambience">>],
       [keyword |-> "tense",
        effects |-> <<"tension_build", "clock_ticking", "heartbeat_fast">>] >>

\* one entry of the list; confidence 0.8 and volume 0.6 are the same in all
SoundEffect(name, keyword) ==
    [name |-> name, keyword |-> keyword, duration |-> 3,
     position |-> "background"]

\* lines 617-628: the effects of every keyword found, in map order
RECURSIVE DetectedEffects(_, _)
DetectedEffects(description_lower, map) ==
    IF map = <<>> THEN <<>>
    ELSE (IF Contains(description_lower, Head(map).keyword)
          THEN [i \in 1..Len(Head(map).effects) |->
                   SoundEffect(Head(map).effects[i], Head(map).keyword)]
          ELSE <<>>)
         \o DetectedEffects(description_lower, Tail(map))

\* lines 630-636: remove duplicates while preserving order
RECURSIVE UniqueEffects(_, _)
UniqueEffects(detected_effects, seen) ==
    IF detected_effects = <<>> THEN <<>>
    ELSE IF Head(detected_effects).name \in seen
         THEN UniqueEffects(Tail(detected_effects), seen)
    ELSE <<Head(detected_effects)>>
         \o UniqueEffects(Tail(detected_effects),
                          seen \cup {Head(detected_effects).name})

AnalyzeSceneForSoundEffects_NoDedup(scene_description) ==
    FirstFive(DetectedEffects(Lower(scene_description), SoundEffectsMap))
\* line 638: unique_effects[:5]
AnalyzeSceneForSoundEffects(scene_description) ==
    FirstFive(UniqueEffects(
        DetectedEffects(Lower(scene_description), SoundEffectsMap), {}))

\* ------------------------------------------------ storyboard placeholders
MaxCalls == 2
\* hash(text) of a str is salted with the hash seed of the interpreter that
\* serves the call; it is kept as the text and the process it was hashed in
Processes == {1, 2}
Hash(text, process) == [of |-> text, process |-> process]
\* f"https://picsum.photos/512/512?random={hash(...)}"
Placeholder(h) == [kind |-> "placeholder", random |-> h]
\* the reference of an image the collaborator produced
GeneratedImage == [kind |-> "image", random |-> Hash("", 0)]

\* what the image collaborator does with one request
ImageEnvs == {"no_key", "artifacts", "no_artifacts", "status_error", "exception"}
Prompts == {"explorers land on a forest moon", "An explosion rocks the factory"}
Styles == {"cinematic", "anime"}

\* StoryboardModel.generate_storyboard (models/ai_models.py)
StoryboardModelGenerate(scene_description, style, env, process) ==
    IF env = "no_key"
    THEN Placeholder(Hash(scene_description, process))
    ELSE IF env = "artifacts" THEN GeneratedImage
    ELSE Placeholder(Hash(scene_description \o style, process))

\* AIModels.generate_storyboard (app.py)
AIModelsGenerateStoryboard(scene_description, style, env, process) ==
    IF env = "artifacts" THEN GeneratedImage
    ELSE Placeholder(Hash(scene_description, process))

\* ------------------------------------------------------ progress channels
MaxClients == 2
Users == {"alice", "bob"}
Anonymous == "anonymous"          \* current_user.is_authenticated is False
ChannelMovies == {1, 2}           \* ids of the Movie rows
NoMovieId == 0                    \* data.get('movie_id') is missing
MovieIdsSent == {NoMovieId, 1, 2, 3}
Sids == 1..MaxClients

\* no movie, nobody connected
NoSockets == [user_id |-> <<>>, sessions |-> <<>>, rooms |-> {}]

\* Movie.query.filter_by(id=movie_id, user_id=current_user.id).first()
OwnsMovie_AnyUser(user, movie_id) == movie_id \in DOMAIN socketio.user_id
OwnsMovie(user, movie_id) ==
    /\ movie_id \in DOMAIN socketio.user_id
    /\ socketio.user_id[movie_id] = user

\* the selector before any call
NoSelection ==
    [scene_description |-> "", movie_genre |-> "", done |-> {},
     mood |-> None, sound_effects |-> <<>>, duration |-> 0,
     scene_music |-> [music_type |-> None, mood |-> None]]

Init ==
    /\ stack \in {"api", "app"}
    /\ credits = DEFAULT_CREDITS      \* the balance registration gives
    /\ initCredits = credits
    /\ movies = <<>>
    /\ scenes = <<>>
    /\ queue = EmptyBag
    /\ creators = EmptyBag
    /\ updaters = EmptyBag
    /\ finalizers = EmptyBag
    /\ threads = <<>>
    /\ resp = Response("none", 0)
    /\ fin = <<>>
    /\ nUpdates = 0
    /\ events = <<>>
    /\ planner = NoCall
    /\ selector = NoSelection
    /\ images = <<>>
    /\ socketio = NoSockets
    /\ assembler = NoAssembly

\* ------------------------------------------------------ api: HTTP handlers
\* POST /movies/create, lines 58-67: read the balance, refuse below the cost,
\* call the script collaborator.  The handler keeps what it read while the
\* collaborator answers; nothing has been written yet.
\* create_movie with the raise of line 60 forgotten: the request is answered
\* 400 and the handler goes on to the script collaborator all the same
CreateMovie_NoRaise(script) ==
    /\ stack = "api"
    /\ IF InsufficientCredits(credits)
       THEN /\ resp' = Response("create", 400)
            /\ creators' = Put(creators,
                  [script |-> script, read |-> credits, sent |-> 0])
       ELSE /\ Len(movies) + BagCardinality(creators) < MaxMovies
            /\ creators' = Put(creators,
                  [script |-> script, read |-> credits, sent |-> 0])
            /\ UNCHANGED resp
    /\ UNCHANGED <<standalone, planner, events, stack, credits, movies, scenes,
                   queue, updaters, finalizers, threads, initCredits, fin,
                   nUpdates>>
CreateMovie(script) ==
    /\ stack = "api"
    /\ IF InsufficientCredits(credits)
       THEN /\ resp' = Response("create", 400)
            /\ UNCHANGED creators
       ELSE /\ Len(movies) + BagCardinality(creators) < MaxMovies
            /\ creators' = Put(creators,
                  [script |-> script, read |-> credits, sent |-> 0])
            /\ UNCHANGED resp
    /\ UNCHANGED <<standalone, planner, events, stack, credits, movies, scenes,
                   queue, updaters, finalizers, threads, initCredits, fin,
                   nUpdates>>

\* create_movie, lines 83-93: one turn of the loop.  The scene is added to
\* the session and its task is published at once; db_scene.id is read before
\* any flush, so the task is sent None.
CreateDispatch(h) ==
    /\ BagIn(h, creators)
    /\ h.sent < Len(h.script)
    /\ BagCardinality(queue) < MaxQueue
    /\ queue' = Put(queue, SceneTask(NoneId))
    /\ creators' = Put(Take(creators, h), [h EXCEPT !.sent = @ + 1])
    /\ UNCHANGED <<standalone, planner, events, stack, credits, movies, scenes,
                   updaters, finalizers, threads, resp, initCredits, fin,
                   nUpdates>>

\* create_movie, lines 95-98: db.commit() makes the movie and its scenes
\* visible to the other sessions
CreateCommit(h) ==
    /\ BagIn(h, creators)
    /\ h.sent = Len(h.script)
    /\ creators' = Take(creators, h)
    /\ movies' = Append(movies, NewMovie("generating"))
    /\ scenes' = scenes \o
         [i \in 1..Len(h.script) |->
            NewScene(Len(movies) + 1, h.script[i], "generating",
                     API_SCENE_DEFAULT_CREDITS)]
    /\ fin' = Append(fin, <<>>)
    /\ resp' = Response("create", 200)
    /\ UNCHANGED <<standalone, planner, events, stack, credits, queue,
                   updaters, finalizers, threads, initCredits, nUpdates>>

\* what update_scene sets on the scene it loaded (lines 138-144): an action
\* that is neither "regenerate" nor "accept" sets nothing
Updated(loaded, action) ==
    IF action = "regenerate"
    THEN [loaded EXCEPT !.status = "generating", !.storyboard_url = None,
                        !.video_url = None]
    ELSE IF action = "accept"
    THEN [loaded EXCEPT !.status = "completed"]
    ELSE loaded

\* POST /movies/scene/{scene_id}/update, lines 130-136: load the scene, or
\* answer 404.  The handler keeps the row it loaded.
UpdateScene(s, action) ==
    /\ stack = "api"
    /\ nUpdates < MaxUpdates
    /\ nUpdates' = nUpdates + 1
    /\ IF s \notin SceneIds
       THEN UNCHANGED updaters                           \* 404
       ELSE updaters' = Put(updaters,
                [scene_id |-> s, action |-> action, loaded |-> scenes[s],
                 sent |-> FALSE])
    /\ UNCHANGED <<standalone, planner, events, stack, credits, movies, scenes,
                   queue, creators, finalizers, threads, resp, initCredits,
                   fin>>

\* update_scene, lines 138-142: a regenerate sets the fields in the session
\* and publishes the task of the scene; nothing is committed yet
UpdateDispatch(h) ==
    /\ BagIn(h, updaters)
    /\ h.action = "regenerate"
    /\ ~h.sent
    /\ BagCardinality(queue) < MaxQueue
    /\ queue' = Put(queue, SceneTask(h.scene_id))
    /\ updaters' = Put(Take(updaters, h), [h EXCEPT !.sent = TRUE])
    /\ UNCHANGED <<standalone, planner, events, stack, credits, movies, scenes,
                   creators, finalizers, threads, resp, initCredits, fin,
                   nUpdates>>

\* update_scene, line 146: db.commit() writes what the handler changed on
\* the row it loaded
UpdateCommit(h) ==
    /\ BagIn(h, updaters)
    /\ h.action = "regenerate" => h.sent
    /\ updaters' = Take(updaters, h)
    /\ scenes' = [scenes EXCEPT ![h.scene_id] =
                    WriteBack(@, h.loaded, Updated(h.loaded, h.action))]
    /\ UNCHANGED <<standalone, planner, events, stack, credits, movies, queue,
                   creators, finalizers, threads, resp, initCredits, fin,
                   nUpdates>>

\* POST /movies/{movie_id}/finalize, lines 189-200: look the movie up, load
\* its scenes, refuse unless all of them are completed.  The handler keeps
\* the sum of credits_used of the scenes it loaded (line 204).
FinalizeMovie(m) ==
    /\ stack = "api"
    /\ IF m \notin MovieIds
       THEN UNCHANGED <<finalizers, fin>>                \* 404
       ELSE IF \E s \in ScenesOf(m) : scenes[s].status # "completed"
       THEN UNCHANGED <<finalizers, fin>>                \* 400
       ELSE LET total_credits_used == SumCredits(ScenesOf(m))
                k == Len(fin[m]) + 1
            IN /\ SumSeq([i \in MovieIds |-> Len(fin[i])]) < MaxFinalize
               /\ finalizers' = Put(finalizers,
                     [movie_id |-> m, no |-> k, total |-> total_credits_used,
                      read |-> 0, pc |-> "checked"])
               /\ fin' = [fin EXCEPT ![m] = Append(@,
                     [expected |-> total_credits_used + ASSEMBLY_SURCHARGE,
                      handler |-> 0])]
    /\ UNCHANGED <<standalone, planner, events, stack, credits, movies, scenes,
                   queue, creators, updaters, threads, resp, initCredits,
                   nUpdates>>

\* finalize_movie, lines 203-205: load the balance; the debit is computed in
\* the session from the balance that was read
FinalizeDebit(h) ==
    /\ BagIn(h, finalizers)
    /\ h.pc = "checked"
    /\ finalizers' = Put(Take(finalizers, h),
                         [h EXCEPT !.read = credits, !.pc = "debited"])
    /\ UNCHANGED <<standalone, planner, events, stack, credits, movies, scenes,
                   queue, creators, updaters, threads, resp, initCredits, fin,
                   nUpdates>>

\* finalize_movie, line 208: publish the assembly task
FinalizeDispatch(h) ==
    /\ BagIn(h, finalizers)
    /\ h.pc = "debited"
    /\ BagCardinality(queue) < MaxQueue
    /\ queue' = Put(queue, FullTask(h.movie_id, h.no))
    /\ finalizers' = Put(Take(finalizers, h), [h EXCEPT !.pc = "sent"])
    /\ UNCHANGED <<standalone, planner, events, stack, credits, movies, scenes,
                   creators, updaters, threads, resp, initCredits, fin,
                   nUpdates>>

\* finalize_movie, line 210: db.commit() writes the balance computed at 205
FinalizeCommit(h) ==
    /\ BagIn(h, finalizers)
    /\ h.pc = "sent"
    /\ finalizers' = Take(finalizers, h)
    /\ credits' = IF h.read - h.total # h.read THEN h.read - h.total
                  ELSE credits
    /\ fin' = [fin EXCEPT ![h.movie_id][h.no].handler = h.total]
    /\ UNCHANGED <<standalone, planner, events, stack, movies, scenes, queue,
                   creators, updaters, threads, resp, initCredits, nUpdates>>

\* ------------------------------------------------------- api: Celery tasks
\* generate_movie_scene, line 12: tasks.py imports no name `database`, so
\* database.get_db() raises NameError before the try block is entered.  The
\* task ends there, whatever its argument, and touches no row.
GenerateMovieScene(msg) ==
    /\ BagIn(msg, queue)
    /\ msg.task = "generate_movie_scene"
    /\ queue' = Take(queue, msg)
    /\ UNCHANGED <<standalone, planner, events, stack, credits, movies, scenes,
                   creators, updaters, finalizers, threads, resp, initCredits,
                   fin, nUpdates>>

\* generate_full_movie, line 129: the same NameError
GenerateFullMovie(msg) ==
    /\ BagIn(msg, queue)
    /\ msg.task = "generate_full_movie"
    /\ queue' = Take(queue, msg)
    /\ UNCHANGED <<standalone, planner, events, stack, credits, movies, scenes,
                   creators, updaters, finalizers, threads, resp, initCredits,
                   fin, nUpdates>>

\* --------------------------------------------------------- app: Flask side
\* the locals of a generate_movie_scenes thread that has not started:
\* storyboard_url and video_url are what the session holds for the scene in
\* progress and has not committed, video_arg is the storyboard reference
\* that generate_video was called with
NewThread ==
    [pc |-> "start", i |-> 0, storyboard_url |-> None, video_url |-> None,
     video_arg |-> None]

\* the second argument of generate_video: the storyboard reference that the
\* worker holds, when the row of the scene stores `stored`
VideoInput_Stored(worker, stored) == stored
VideoInput(worker, stored) == worker.storyboard_url

\* POST /api/movies behind @require_credits(40)
CreateMovieApi(script) ==
    /\ stack = "app"
    /\ IF InsufficientCredits(credits)
       THEN /\ resp' = Response("create", 400)
            /\ UNCHANGED <<movies, scenes, threads, fin>>
       ELSE /\ Len(movies) < MaxMovies
            /\ movies' = Append(movies, NewMovie("draft"))
            /\ scenes' = scenes \o
                 [i \in 1..Len(script) |->
                    NewScene(Len(movies) + 1, script[i], "pending",
                             APP_SCENE_DEFAULT_CREDITS)]
            /\ threads' = Append(threads, NewThread)
            /\ fin' = Append(fin, <<>>)
            /\ resp' = Response("create", 200)
    /\ UNCHANGED <<standalone, planner, events, stack, credits, queue, creators, updaters,
                   finalizers, initCredits, nUpdates>>

\* ------------------------------------------------ app: progress events
NoProgress == -1                  \* the event carries no 'progress' key
\* socketio.emit('movie_update', {...}, room=f'movie_{movie_id}')
MovieUpdate(m, status, progress) ==
    [event |-> "movie_update", movie_id |-> m, scene_id |-> NoneId,
     status |-> status, step |-> None, progress |-> progress]
\* socketio.emit('scene_update', {...}, room=f'movie_{movie_id}')
SceneUpdate(m, s, status, step, progress) ==
    [event |-> "scene_update", movie_id |-> m, scene_id |-> s,
     status |-> status, step |-> step, progress |-> progress]
\* ---- int((i / total_scenes) * 100) in IEEE 754 double arithmetic
\* (i * 2^n) mod m
RECURSIVE DoubleMod(_, _, _)
DoubleMod(i, n, m) ==
    IF n = 0 THEN i % m ELSE DoubleMod((2 * i) % m, n - 1, m)
\* 2^n
RECURSIVE Pow2(_)
Pow2(n) == IF n = 0 THEN 1 ELSE 2 * Pow2(n - 1)
\* the p with 2^p <= k < 2^(p+1), for k >= 1
RECURSIVE Log2Floor(_)
Log2Floor(k) == IF k < 2 THEN 0 ELSE 1 + Log2Floor(k \div 2)
\* the a with 2^(-a) <= i / total < 2^(1-a), for 0 < i <= total
RECURSIVE BinaryExponent(_, _)
BinaryExponent(i, total) ==
    IF i >= total THEN 0 ELSE 1 + BinaryExponent(2 * i, total)
\* The quotient i / total is rounded to 53 significant bits, the product
\* with 100 is rounded again, and int() truncates.  When 100 * i / total is
\* not an integer the result is its floor: the rounding errors are far
\* smaller than 1 / total.  When it is an integer k, the result is k - 1
\* exactly when the quotient was rounded down (remainder r, 0 < 2r < total)
\* by so much that the product lies nearer to the double below k than to k:
\* int((29 / 50) * 100) is 57.
Progress(i, total_scenes) ==
    LET k == (100 * i) \div total_scenes
    IN IF (100 * i) % total_scenes # 0 \/ k = 0 THEN k
       ELSE LET p == Log2Floor(k)
                a == BinaryExponent(i, total_scenes)
                r == DoubleMod(i, 52 + a, total_scenes)
                \* twice the distance from k to the double below it, in
                \* units of the last bit of the quotient
                gap == IF k = Pow2(p) THEN Pow2(p + a - 1) ELSE Pow2(p + a)
            IN IF /\ r # 0
                  /\ 2 * r < total_scenes
                  /\ 200 * r > total_scenes * gap
               THEN k - 1 ELSE k

\* movie.scenes of the thread's movie, in row order
FirstScene(m) == CHOOSE s \in ScenesOf(m) : \A t \in ScenesOf(m) : s <= t
ThreadScene_Stale(m) == FirstScene(m)
ThreadScene(m) == FirstScene(m) + threads[m].i - 1
\* the pc of a thread that is through with scene i
AfterScene(m) ==
    IF threads[m].i < Cardinality(ScenesOf(m)) THEN "scene" ELSE "finish"

\* what a thread never writes
notOfThreads ==
    <<standalone, planner, stack, credits, queue, creators, updaters,
      finalizers, resp, initCredits, fin, nUpdates>>

\* generate_movie_scenes, lines 420-425: the movie is committed generating
ThreadStart(m) ==
    /\ m \in DOMAIN threads
    /\ threads[m].pc = "start"
    /\ movies' = [movies EXCEPT ![m].status = "generating"]
    /\ threads' = [threads EXCEPT ![m].pc = "emit_start"]
    /\ UNCHANGED <<notOfThreads, scenes, events>>

\* lines 428-435: emit movie_update, enter the try block
ThreadEmitStart(m) ==
    /\ m \in DOMAIN threads
    /\ threads[m].pc = "emit_start"
    /\ events' = Append(events, MovieUpdate(m, "generating", NoProgress))
    /\ threads' = [threads EXCEPT ![m].pc =
                      IF ScenesOf(m) = {} THEN "finish" ELSE "scene",
                                  ![m].i = 1]
    /\ UNCHANGED <<notOfThreads, movies, scenes>>

\* lines 437-439: the next scene is committed generating
ThreadSceneBegin(m) ==
    /\ m \in DOMAIN threads
    /\ threads[m].pc = "scene"
    /\ scenes' = [scenes EXCEPT ![ThreadScene(m)].status = "generating"]
    /\ threads' = [threads EXCEPT ![m].pc = "emit_scene",
                                  ![m].storyboard_url = None,
                                  ![m].video_url = None,
                                  ![m].video_arg = None]
    /\ UNCHANGED <<notOfThreads, movies, events>>

\* lines 442-449: emit scene_update with the progress of the scenes before
ThreadEmitScene(m) ==
    /\ m \in DOMAIN threads
    /\ threads[m].pc = "emit_scene"
    /\ events' = Append(events,
          SceneUpdate(m, ThreadScene(m), "generating", None,
                      Progress(threads[m].i - 1, Cardinality(ScenesOf(m)))))
    /\ threads' = [threads EXCEPT ![m].pc = "emit_storyboard"]
    /\ UNCHANGED <<notOfThreads, movies, scenes>>

\* lines 452-458: emit the step event of the storyboard
ThreadEmitStoryboard(m) ==
    /\ m \in DOMAIN threads
    /\ threads[m].pc = "emit_storyboard"
    /\ events' = Append(events,
          SceneUpdate(m, ThreadScene(m), "generating", "storyboard",
                      NoProgress))
    /\ threads' = [threads EXCEPT ![m].pc = "storyboard"]
    /\ UNCHANGED <<notOfThreads, movies, scenes>>

\* line 460: the attribute is set in the session, nothing is committed yet
ThreadStoryboard(m) ==
    /\ m \in DOMAIN threads
    /\ threads[m].pc = "storyboard"
    /\ threads' = [threads EXCEPT ![m].pc = "emit_video",
                                  ![m].storyboard_url = STORYBOARD_URL]
    /\ UNCHANGED <<notOfThreads, movies, scenes, events>>

\* lines 463-469: emit the step event of the video
ThreadEmitVideo(m) ==
    /\ m \in DOMAIN threads
    /\ threads[m].pc = "emit_video"
    /\ events' = Append(events,
          SceneUpdate(m, ThreadScene(m), "generating", "video", NoProgress))
    /\ threads' = [threads EXCEPT ![m].pc = "video"]
    /\ UNCHANGED <<notOfThreads, movies, scenes>>

\* line 471: generate_video is given the storyboard that the session holds
ThreadVideo(m, video_url) ==
    /\ m \in DOMAIN threads
    /\ threads[m].pc = "video"
    /\ threads' = [threads EXCEPT
          ![m].pc = "emit_audio",
          ![m].video_arg =
              VideoInput(threads[m], scenes[ThreadScene(m)].storyboard_url),
          ![m].video_url = video_url]
    /\ UNCHANGED <<notOfThreads, movies, scenes, events>>

\* lines 474-480: emit the step event of the audio
ThreadEmitAudio(m) ==
    /\ m \in DOMAIN threads
    /\ threads[m].pc = "emit_audio"
    /\ events' = Append(events,
          SceneUpdate(m, ThreadScene(m), "generating", "audio", NoProgress))
    /\ threads' = [threads EXCEPT ![m].pc = "audio"]
    /\ UNCHANGED <<notOfThreads, movies, scenes>>

\* lines 482-486: audio, status completed, and the commit that stores the
\* three references with the status
ThreadAudio(m) ==
    /\ m \in DOMAIN threads
    /\ threads[m].pc = "audio"
    /\ scenes' = [scenes EXCEPT
                    ![ThreadScene(m)].storyboard_url = threads[m].storyboard_url,
                    ![ThreadScene(m)].video_url = threads[m].video_url,
                    ![ThreadScene(m)].audio_url = AUDIO_URL,
                    ![ThreadScene(m)].status = "completed"]
    /\ threads' = [threads EXCEPT ![m].pc = "emit_completed",
                                  ![m].storyboard_url = None,
                                  ![m].video_url = None,
                                  ![m].video_arg = None]
    /\ UNCHANGED <<notOfThreads, movies, events>>

\* lines 489-497: emit scene_update completed with the progress, go on to
\* the next scene
ThreadEmitCompleted(m) ==
    /\ m \in DOMAIN threads
    /\ threads[m].pc = "emit_completed"
    /\ events' = Append(events,
          SceneUpdate(m, ThreadScene(m), "completed", None,
                      Progress(threads[m].i, Cardinality(ScenesOf(m)))))
    /\ threads' = [threads EXCEPT ![m].pc = AfterScene(m), ![m].i = @ + 1]
    /\ UNCHANGED <<notOfThreads, movies, scenes>>

\* lines 499-500: the movie is committed completed
ThreadFinish(m) ==
    /\ m \in DOMAIN threads
    /\ threads[m].pc = "finish"
    /\ movies' = [movies EXCEPT ![m].status = "completed"]
    /\ threads' = [threads EXCEPT ![m].pc = "emit_finish"]
    /\ UNCHANGED <<notOfThreads, scenes, events>>

\* lines 503-508: emit the final movie_update
ThreadEmitFinish(m) ==
    /\ m \in DOMAIN threads
    /\ threads[m].pc = "emit_finish"
    /\ events' = Append(events, MovieUpdate(m, "completed", 100))
    /\ threads' = [threads EXCEPT ![m].pc = "done"]
    /\ UNCHANGED <<notOfThreads, movies, scenes>>

\* the positions of the thread at which a collaborator call can raise
Raises(pc) == pc \in {"storyboard", "video", "audio"}

\* lines 510-513: a collaborator call raised; the movie is committed failed
\* and the commit also flushes what the session holds for the scene in
\* progress
ThreadAbort(m) ==
    /\ m \in DOMAIN threads
    /\ Raises(threads[m].pc)
    /\ movies' = [movies EXCEPT ![m].status = "failed"]
    /\ scenes' = [scenes EXCEPT
                    ![ThreadScene(m)].storyboard_url =
                        IF threads[m].storyboard_url # None
                        THEN threads[m].storyboard_url ELSE @,
                    ![ThreadScene(m)].video_url =
                        IF threads[m].video_url # None
                        THEN threads[m].video_url ELSE @]
    /\ threads' = [threads EXCEPT ![m].pc = "emit_failed"]
    /\ UNCHANGED <<notOfThreads, events>>

\* lines 516-520: emit movie_update failed
ThreadEmitFailed(m) ==
    /\ m \in DOMAIN threads
    /\ threads[m].pc = "emit_failed"
    /\ events' = Append(events, MovieUpdate(m, "failed", NoProgress))
    /\ threads' = [threads EXCEPT ![m].pc = "done"]
    /\ UNCHANGED <<notOfThreads, movies, scenes>>

\* ======================================================================
\* Properties
\* ======================================================================
Debited(m) == SumSeq([k \in 1..Len(fin[m]) |-> fin[m][k].handler])
TotalDebited == SumSeq([m \in 1..Len(fin) |-> Debited(m)])
AllScenesCompleted(m) == \A s \in ScenesOf(m) : scenes[s].status = "completed"
Terminal(s) == scenes[s].status \in {"completed", "failed"}
HandlerInFlight(m, k) ==
    \E h \in BagToSet(finalizers) : h.movie_id = m /\ h.no = k
\* the step is a run of the generate_full_movie task of finalize k of movie m
AssemblyRuns(m, k) ==
    BagIn(FullTask(m, k), queue) /\ queue' = Take(queue, FullTask(m, k))

\* C1: finalize is idempotent: no finalize of a movie after its first one
\* debits anything.
C1_FinalizeDebitsOnce ==
    \A m \in MovieIds : \A k \in 2..Len(fin[m]) : fin[m][k].handler = 0

\* C2: once a finalize has run to the end (its handler has committed and its
\* assembly task has ended), it has debited exactly
\* sum(credits_used of the completed scenes) + 50.
C2_FinalizeDebitsTotal ==
    \A m \in MovieIds : \A k \in 1..Len(fin[m]) :
        (~HandlerInFlight(m, k) /\ ~BagIn(FullTask(m, k), queue))
            => fin[m][k].handler = fin[m][k].expected

\* C3: the credit balance is never negative.
C3_BalanceNeverNegative == credits >= 0

\* C4: a create request that meets a balance below 40 is answered 400 and
\* leaves the Movie rows, the Scene rows, the task queue, the threads and the
\* balance as they were; no handler goes on to create anything for it, so
\* that every create handler at work has read a balance of 40 or more.
C4_RejectedCreateNoEffect ==
    [][ /\ credits < CREATE_COST =>
              /\ BagCardinality(creators') <= BagCardinality(creators)
              /\ Len(threads') = Len(threads)
        /\ (resp' # resp /\ resp' = Response("create", 400)) =>
              /\ credits < CREATE_COST
              /\ UNCHANGED <<movies, scenes, queue, threads, credits, creators>>
        /\ \A h \in BagToSet(creators') : h.read >= CREATE_COST
      ]_vars

\* C4 witness: a create request was rejected for a balance below the cost
\* (finalizes have spent the balance), and the rows are those of the one
\* movie that was created before; no handler and no task is at work
C4_Witness ==
    /\ resp = Response("create", 400)
    /\ credits < CREATE_COST
    /\ Len(movies) = 1 /\ creators = EmptyBag /\ queue = EmptyBag

\* C5: a movie is completed exactly when all its scenes are completed and
\* the assembler produced the stitched final video.
C5_CompletedIffScenesAndAssembly ==
    \A m \in MovieIds :
        (movies[m].status = "completed")
            <=> (AllScenesCompleted(m) /\ movies[m].video_url = STITCHED_VIDEO)

\* C7: credits have been debited for a movie exactly when it is completed.
C7_DebitAtomicWithCompleted ==
    \A m \in MovieIds : (Debited(m) > 0) <=> (movies[m].status = "completed")

\* C8: the balance is the initial balance minus the sum of all the debits
\* that were applied (no lost update).
C8_NoLostUpdate == credits = initCredits - TotalDebited

\* the status a movie has by the statuses of its scenes after the step
AggregateAfter(m) ==
    IF \E s \in ScenesOf(m) : scenes'[s].status \notin {"completed", "failed"}
    THEN "generating"
    ELSE IF \E s \in ScenesOf(m) : scenes'[s].status = "failed"
    THEN "failed" ELSE "completed"
\* C9: the step in which a scene worker puts its scene in a terminal state
\* leaves the movie with the aggregate of its scenes' statuses: generating
\* while a scene is open, else failed if a scene failed, else completed.
C9_AggregateRecomputed ==
    [][\A m \in DOMAIN threads : \A s \in ScenesOf(m) :
          (/\ threads'[m] # threads[m]
           /\ scenes'[s].status # scenes[s].status
           /\ scenes'[s].status \in {"completed", "failed"})
              => movies'[m].status = AggregateAfter(m)]_vars

\* C10: a run of generate_full_movie for a movie finds every scene of that
\* movie completed or failed.
C10_AssemblyBarrier ==
    [][\A m \in MovieIds : \A k \in 1..Len(fin[m]) :
          AssemblyRuns(m, k) => \A s \in ScenesOf(m) : Terminal(s)]_vars

\* C12: a run of the assembly task for a movie none of whose scenes has a
\* storyboard to make a clip from ends with the movie failed and its
\* video_url unset.
C12_NoClipFailsAssembly ==
    [][\A m \in MovieIds : \A k \in 1..Len(fin[m]) :
          (/\ AssemblyRuns(m, k)
           /\ \A s \in ScenesOf(m) : scenes[s].storyboard_url = None)
              => (movies'[m].status = "failed"
                  /\ movies'[m].video_url = None)]_vars

\* C13: a run of the assembly task that ends without a final video leaves
\* every scene row as it was, leaves the movie's video_url unset, and puts
\* the movie's status to failed.
C13_FailedAssemblyFrame ==
    [][\A m \in MovieIds : \A k \in 1..Len(fin[m]) :
          (AssemblyRuns(m, k) /\ movies'[m].video_url = None)
              => (/\ scenes' = scenes
                  /\ movies[m].video_url = None
                  /\ movies'[m].status = "failed")]_vars

\* C14: the scene_numbers of every movie made by create are exactly 1..N,
\* N the number of its scenes.
C14_SceneNumbersContiguous ==
    \A m \in MovieIds :
        {scenes[s].scene_number : s \in ScenesOf(m)}
            = 1..Cardinality(ScenesOf(m))

Sequential(script) == \A i \in 1..Len(script) : script[i].scene_number = i

\* C15: a generate_script call whose collaborator is unavailable returns at
\* least 3 scenes, numbered 1, 2, 3, ... in list order.
C15_FallbackScript ==
    (planner.called /\ planner.response.kind \in Unavailable)
        => (Len(planner.result) >= 3 /\ Sequential(planner.result))

\* C15 witness: a call that got a status other than 200 returned the template
C15_Witness ==
    /\ planner.called
    /\ planner.response.kind = "status_error"
    /\ SceneNumbers(planner.result) = <<1, 2, 3>>

\* C16: every generate_script call returns at least 3 scenes.
C16_AlwaysUsableScript == planner.called => Len(planner.result) >= 3

\* the step is the commit of an update_scene request for scene s
Commits(s, action) ==
    \E h \in BagToSet(updaters) :
        h.scene_id = s /\ h.action = action /\ updaters' = Take(updaters, h)

\* C17: a scene's status changes only pending -> generating, generating ->
\* completed (by its worker, not by accept), generating -> failed, or by a
\* regenerate request, which puts it to pending or generating.
C17_SceneTransitions ==
    [][\A s \in SceneIds :
          scenes'[s].status # scenes[s].status =>
              \/ /\ Commits(s, "regenerate")
                 /\ scenes'[s].status \in {"pending", "generating"}
              \/ <<scenes[s].status, scenes'[s].status>>
                    \in {<<"pending", "generating">>, <<"generating", "failed">>}
              \/ /\ <<scenes[s].status, scenes'[s].status>>
                        = <<"generating", "completed">>
                 /\ ~Commits(s, "accept")]_vars

\* C18: a regenerate request leaves its scene in status pending, with
\* storyboard_url, video_url and audio_url all unset.
C18_RegenerateClearsArtifacts ==
    [][\A s \in SceneIds :
          Commits(s, "regenerate") =>
              /\ scenes'[s].status = "pending"
              /\ scenes'[s].storyboard_url = None
              /\ scenes'[s].video_url = None
              /\ scenes'[s].audio_url = None]_vars

\* C19: no completed scene carries the sample URL that generate_video
\* substitutes for a clip it could not make.
C19_NoPlaceholderInCompletedScene ==
    \A s \in SceneIds :
        scenes[s].status = "completed" => scenes[s].video_url # SAMPLE_VIDEO

\* a movie's status changes only draft -> generating, generating ->
\* completed and generating -> failed; completed and failed are never left
MovieStatusMoves ==
    \A m \in MovieIds :
        movies'[m].status # movies[m].status =>
            <<movies[m].status, movies'[m].status>>
                \in {<<"draft", "generating">>, <<"generating", "completed">>,
                     <<"generating", "failed">>}
\* the movie rows that the step creates
Created == DOMAIN movies' \ DOMAIN movies
\* C20: a movie's status moves only draft -> generating ->
\* completed or failed, and a movie is draft when it is created.
C20_MovieTransitions ==
    [][ /\ MovieStatusMoves
        /\ \A m \in Created : movies'[m].status = "draft" ]_vars

\* --------------------------------------------------------------- selector
\* the mood categories with a keyword in the lower-cased description
MoodHits(description) ==
    {i \in 1..Len(MoodKeywords) :
        \E k \in 1..Len(MoodKeywords[i].keywords) :
            Contains(Lower(description), MoodKeywords[i].keywords[k])}
FirstOf(S) == CHOOSE i \in S : \A j \in S : i <= j

\* C24: the mood is the tag of the first category, in declared order, one of
\* whose keywords occurs in the description whatever its case; with no
\* keyword it is the default of the genre, and "dramatic" for a genre the
\* default table does not have.
C24_MoodIsFirstCategory ==
    "mood" \in selector.done =>
        LET hits == MoodHits(selector.scene_description)
            genre == Lower(selector.movie_genre)
        IN IF hits # {} THEN selector.mood = MoodKeywords[FirstOf(hits)].mood
           ELSE IF genre \in DOMAIN GenreDefaultMoods
                THEN selector.mood = GenreDefaultMoods[genre]
           ELSE selector.mood = "dramatic"
\* a description with a capitalised keyword of the first category and a
\* keyword of a later one has been analysed
C24_Witness ==
    /\ "mood" \in selector.done
    /\ Cardinality(MoodHits(selector.scene_description)) >= 2
    /\ selector.scene_description # Lower(selector.scene_description)
    /\ selector.mood = "dramatic"

\* C25: in a sci-fi movie a description containing "forest" gets a mood that
\* comes from the forest keyword, not the default mood of sci-fi.
C25_ForestDeterminesMood ==
    ( /\ "mood" \in selector.done
      /\ Contains(Lower(selector.scene_description), "forest")
      /\ Lower(selector.movie_genre) = "sci-fi" )
    => selector.mood # GenreDefaultMoods["sci-fi"]

\* the (keyword, effect) places of the vocabulary whose keyword occurs in the
\* description, and those that are the first place of their effect name
EffectPlaces(description) ==
    LET description_lower == Lower(description)
        found == {k \in 1..Len(SoundEffectsMap) :
                     Contains(description_lower, SoundEffectsMap[k].keyword)}
    IN found \X (1..3)
EffectName(p) == SoundEffectsMap[p[1]].effects[p[2]]
Before(p, q) == p[1] < q[1] \/ (p[1] = q[1] /\ p[2] < q[2])
FirstPlaces(places) ==
    {p \in places :
        ~\E q \in places : Before(q, p) /\ EffectName(q) = EffectName(p)}
Rank(p, firsts) == Cardinality({q \in firsts : Before(q, p)}) + 1
OfGroup(effects, keyword) ==
    \E i \in 1..Len(effects) : effects[i].keyword = keyword
\* at most 5 entries, no name twice, in the order of first occurrence over
\* the vocabulary
BoundedDistinctOrdered(effects, description) ==
    LET places == EffectPlaces(description)
        firsts == FirstPlaces(places)
    IN /\ Len(effects) <= 5
       /\ \A i, j \in 1..Len(effects) :
             effects[i].name = effects[j].name => i = j
       /\ \A p \in firsts :
             LET r == Rank(p, firsts)
             IN r <= 5 =>
                  /\ r <= Len(effects)
                  /\ effects[r].name = EffectName(p)
                  /\ effects[r].keyword = SoundEffectsMap[p[1]].keyword
       /\ \A i \in 1..Len(effects) : \E p \in firsts : Rank(p, firsts) = i
BothKeywords(description) ==
    /\ Contains(Lower(description), "explosion")
    /\ Contains(Lower(description), "factory")
\* the vocabulary keywords declared between "factory" and "explosion"
BetweenKeywords ==
    {"forest", "city", "space", "ocean", "rain", "night", "robot", "door"}

\* C26 as stated: the list has at most 5 entries, no duplicate name, keeps the
\* order of first occurrence, and for every description with "explosion" and
\* "factory" it has an effect of each of the two groups.
C26_SoundEffectsBothGroups ==
    "sound_effects" \in selector.done =>
        /\ BoundedDistinctOrdered(selector.sound_effects,
                                  selector.scene_description)
        /\ BothKeywords(selector.scene_description) =>
              /\ OfGroup(selector.sound_effects, "explosion")
              /\ OfGroup(selector.sound_effects, "factory")
\* C26 amended: the same, where both groups are promised only to a
\* description with none of the keywords declared between the two; with
\* "factory" alone the factory group is always there.
C26_SoundEffectsBounded ==
    "sound_effects" \in selector.done =>
        /\ BoundedDistinctOrdered(selector.sound_effects,
                                  selector.scene_description)
        /\ BothKeywords(selector.scene_description) =>
              /\ OfGroup(selector.sound_effects, "factory")
              /\ (\A k \in BetweenKeywords :
                     ~Contains(Lower(selector.scene_description), k))
                 => OfGroup(selector.sound_effects, "explosion")
\* the effects of a description with both keywords were selected and the
\* list was cut at 5
C26_Witness ==
    /\ "sound_effects" \in selector.done
    /\ BothKeywords(selector.scene_description)
    /\ OfGroup(selector.sound_effects, "explosion")
    /\ Len(selector.sound_effects) = 5

\* ------------------------------------------------------------ placeholders
FellBack(call) == call.env # "artifacts"
\* C27: the placeholder returned when the image collaborator has no
\* credentials or fails depends on the prompt alone: two calls with the same
\* prompt that fall back return the same reference, whatever the reason.
\* Stated for two calls served by the same interpreter, whose hash seed is
\* the same.
C27_PlaceholderOfPromptAlone ==
    \A i, j \in 1..Len(images) :
        ( /\ FellBack(images[i]) /\ FellBack(images[j])
          /\ images[i].process = images[j].process
          /\ images[i].scene_description = images[j].scene_description )
        => images[i].result = images[j].result

\* ---------------------------------------------------------------- channels
\* C22: a client is in the progress channel of a movie only if it connected
\* as the owner of that movie, whatever connect, join and leave requests
\* were made.
C22_OnlyOwnerInChannel ==
    \A member \in socketio.rooms :
        /\ member[1] \in DOMAIN socketio.sessions
        /\ socketio.sessions[member[1]] = socketio.user_id[member[2]]
\* the owner has joined the channel of a movie while a client of another
\* user, or an anonymous one, is connected
C22_Witness ==
    \E member \in socketio.rooms :
        \E sid \in DOMAIN socketio.sessions :
            socketio.sessions[sid] # socketio.user_id[member[2]]

\* ---------------------------------------------------------------- progress
CompletedAfter(m) ==
    Cardinality({s \in ScenesOf(m) : scenes'[s].status = "completed"})
\* the events published by the step
Published == {events'[k] : k \in (Len(events) + 1)..Len(events')}
\* C21: every progress percentage published for a movie is
\* floor(completed_scenes / total_scenes * 100) for the scenes that are
\* completed when it is published, and once the thread has ended with the
\* movie completed the last event published for it is the final one, with
\* progress 100.
C21_ProgressIsCompletedShare ==
    [][ /\ \A e \in Published :
             e.progress # NoProgress =>
                IF e.event = "scene_update"
                THEN e.progress = (CompletedAfter(e.movie_id) * 100)
                                     \div Cardinality(ScenesOf(e.movie_id))
                ELSE /\ e.progress = 100
                     /\ CompletedAfter(e.movie_id) =
                           Cardinality(ScenesOf(e.movie_id))
        /\ \A m \in DOMAIN threads' :
             (threads'[m].pc = "done" /\ movies'[m].status = "completed") =>
                \E k \in 1..Len(events') :
                    /\ events'[k] = MovieUpdate(m, "completed", 100)
                    /\ \A j \in (k + 1)..Len(events') :
                          events'[j].movie_id # m
      ]_vars

\* ------------------------------------------------------------ scene workers
\* what a scene shows of its generation
Generated(row) ==
    <<row.status, row.storyboard_url, row.video_url, row.audio_url>>
\* the scene that the thread of movie m is at: the i-th of the movie
SceneAt(m) ==
    {s \in ScenesOf(m) :
        Cardinality({t \in ScenesOf(m) : t < s}) = threads[m].i - 1}
\* C28: a step of a scene worker (a run of the task of one scene, a step of
\* the thread at one scene) changes the status and the storyboard, video and
\* audio references of no other scene.
C28_WorkerWritesOwnScene ==
    [][ /\ \A msg \in BagToSet(queue) :
             (msg.task = "generate_movie_scene" /\ queue' = Take(queue, msg)) =>
                \A s \in SceneIds \ {msg.arg} :
                    Generated(scenes'[s]) = Generated(scenes[s])
        /\ \A m \in DOMAIN threads :
             threads'[m] # threads[m] =>
                \A s \in SceneIds \ SceneAt(m) :
                    Generated(scenes'[s]) = Generated(scenes[s])
      ]_vars
\* the thread has failed at the video sub-step of one scene, next to a scene
\* of the movie that it had completed before
C28_Witness ==
    \E m \in DOMAIN threads : \E s, t \in ScenesOf(m) :
        /\ threads[m].pc = "done" /\ movies[m].status = "failed"
        /\ scenes[s].status = "generating"
        /\ scenes[s].storyboard_url # None /\ scenes[s].video_url = None
        /\ scenes[t].status = "completed"
        /\ scenes[t].video_url # None

\* ---------------------------------------------------------------- sub-steps
\* reference `held` by a worker for a column of its scene is stored in `row`
StoredIfHeld(held, stored) == held # None => stored = held
\* C29: as soon as a sub-step has returned its reference, the scene row
\* stores it, and it is still stored after a later sub-step has failed.
C29_ArtifactsPersistedAtOnce ==
    \A m \in DOMAIN threads : \A s \in SceneAt(m) :
        /\ StoredIfHeld(threads[m].storyboard_url, scenes[s].storyboard_url)
        /\ StoredIfHeld(threads[m].video_url, scenes[s].video_url)

\* the sub-steps of a worker have returned in order and the video sub-step
\* was given the storyboard of this run
InOrder(pc, storyboard_url, video_url, video_arg) ==
    /\ pc \in {"emit_scene", "emit_storyboard", "storyboard"} =>
          storyboard_url = None /\ video_url = None
    /\ pc \in {"emit_video", "video"} =>
          storyboard_url # None /\ video_url = None
    /\ pc \in {"emit_audio", "audio"} =>
          storyboard_url # None /\ video_url # None
    /\ video_url # None => video_arg = storyboard_url
    /\ video_url = None => video_arg = None
\* C30: within one scene the storyboard, video and audio sub-steps run one
\* after the other, each after the one before has returned, and the video
\* sub-step is given the storyboard reference produced for the scene in the
\* same run.
C30_SubStepsInOrder ==
    \A m \in DOMAIN threads :
        /\ InOrder(threads[m].pc, threads[m].storyboard_url,
                   threads[m].video_url, threads[m].video_arg)
        /\ \A s \in SceneAt(m) :
              threads[m].pc \in {"emit_scene", "emit_storyboard",
                                  "storyboard", "emit_video", "video",
                                  "emit_audio", "audio"} =>
                  scenes[s].audio_url = None
\* the video of the second scene was generated from the storyboard of its
\* own run, while the row of the scene stores none
C30_Witness ==
    \E m \in DOMAIN threads : \E s \in SceneAt(m) :
        /\ threads[m].pc = "audio"
        /\ threads[m].i = 2
        /\ threads[m].video_arg = STORYBOARD_URL
        /\ scenes[s].storyboard_url = None

\* ------------------------------------------------------ events of one scene
\* the scene_update events published for scene s, in order of publication
SceneEvents(s) ==
    SelectSeq(events, LAMBDA e : e.event = "scene_update" /\ e.scene_id = s)
\* the sub-steps that a sequence of events names, in order
Steps(q) ==
    LET named == SelectSeq(q, LAMBDA e : e.step # None)
    IN  [k \in 1..Len(named) |-> named[k].step]
\* the events of a sequence that report a completion or a failure
Finals(q) == SelectSeq(q, LAMBDA e : e.status \in {"completed", "failed"})
IsPrefix(p, q) == Len(p) <= Len(q) /\ SubSeq(q, 1, Len(p)) = p
\* the thread of movie m has begun scene s and is no longer generating it
DoneWith(m, s) ==
    /\ SceneEvents(s) # <<>>
    /\ threads[m].pc = "done" \/ s \notin SceneAt(m)
\* C31: the events of one scene name the sub-steps storyboard, video, audio
\* in this order; at most one of them reports a completion or a failure and
\* it is the last one; and once the worker is done with a scene, completed
\* or failed, exactly one such final event of the scene has been published.
C31_SceneEventsEndWithFinal ==
    \A m \in DOMAIN threads : \A s \in ScenesOf(m) :
        LET q == SceneEvents(s)
        IN  /\ IsPrefix(Steps(q), <<"storyboard", "video", "audio">>)
            /\ Len(Finals(q)) <= 1
            /\ Len(Finals(q)) = 1 =>
                  /\ q[Len(q)] = Finals(q)[1]
                  /\ Steps(q) = <<"storyboard", "video", "audio">>
            /\ DoneWith(m, s) => Len(Finals(q)) = 1

\* ---------------------------------------------------------------- assembler
\* C32: when the assembler has returned, every directory that was made with
\* mkdtemp during the run and every file written during the run is gone.
C32_TemporariesRemoved ==
    assembler.pc = "returned" =>
        assembler.dirs = {} /\ assembler.files = {}

\* the run stitched two or more clips into the output file
Stitched ==
    /\ Len(assembler.video_clips) >= 2
    /\ assembler.final_video_path = File(TempDir, STITCHED_VIDEO)
\* C38: when the assembler has returned after a successful stitch of two or
\* more clips, what it returned is the stitched output and that file exists.
C38_StitchedOutputSurvives ==
    assembler.pc = "returned" /\ Stitched =>
        /\ assembler.result = assembler.final_video_path
        /\ assembler.result \in assembler.files

\* ------------------------------------------------------------ free-text parse
\* a line that opens a scene: 'Scene' in line and ':' in line
IsHeader(line) == HasSceneWord(line) /\ HasColon(line)
\* the positions of the scene headers of a text, and the i-th of them
HeaderPositions(text) == {p \in 1..Len(text) : IsHeader(text[p])}
NthHeader(text, i) ==
    CHOOSE p \in HeaderPositions(text) :
        Cardinality({q \in HeaderPositions(text) : q < p}) = i - 1
\* the non-empty lines between the i-th header and the next one
Inside(text, i) ==
    LET last == IF i < Cardinality(HeaderPositions(text))
                THEN NthHeader(text, i + 1) - 1 ELSE Len(text)
    IN  SelectSeq(SubSeq(text, NthHeader(text, i) + 1, last),
                  LAMBDA line : line # BLANK_LINE)
Smaller(a, b) == IF a < b THEN a ELSE b
\* C33: the parse of a free text has one scene per header of the text, five
\* at most, numbered 1, 2, ... in the order of the headers whatever number
\* a header carries; the dialogue of a scene is the 'label: text' lines
\* after its header, its description the other non-empty lines after it.
C33_ParseCapsAndRenumbers ==
    (planner.called /\ stack = "api" /\ planner.response.kind = "ok") =>
        LET text == planner.response.text
            parsed == planner.result
        IN  /\ Len(parsed) = Smaller(Cardinality(HeaderPositions(text)), 5)
            /\ \A i \in 1..Len(parsed) :
                  /\ parsed[i].scene_number = i
                  /\ parsed[i].title = TitleOf(text[NthHeader(text, i)])
                  /\ parsed[i].dialogue =
                        SelectSeq(Inside(text, i), HasColon)
                  /\ parsed[i].description =
                        SelectSeq(Inside(text, i), LAMBDA l : ~HasColon(l))
\* a text of six headers was cut to five scenes
C33_Witness ==
    /\ planner.called /\ stack = "api" /\ planner.response.kind = "ok"
    /\ Cardinality(HeaderPositions(planner.response.text)) = 6
    /\ SceneNumbers(planner.result) = <<1, 2, 3, 4, 5>>

\* ------------------------------------------------------------ music duration
ACTION_WORDS == {"battle", "chase", "fight", "confrontation"}
CONTEMPLATIVE_WORDS == {"looks at", "thinks", "remembers", "pause"}
DIALOGUE_WORDS == {"says", "tells", "asks", "dialogue"}
\* the description, in lower case, contains one of the words
Mentions(description, words) ==
    LET description_lower == Lower(description)
    IN  \E w \in words : Contains(description_lower, w)
\* C34: the music duration of a description is 45 when it has an action
\* keyword; otherwise 20 when it has a contemplative keyword; otherwise 35
\* when it has a dialogue keyword; otherwise 30.  In particular a
\* description with an action and a dialogue keyword gets 45.
C34_DurationPrecedence ==
    "duration" \in selector.done =>
        LET d == selector.scene_description
        IN  /\ selector.duration =
                  IF Mentions(d, ACTION_WORDS) THEN 45
                  ELSE IF Mentions(d, CONTEMPLATIVE_WORDS) THEN 20
                  ELSE IF Mentions(d, DIALOGUE_WORDS) THEN 35
                  ELSE 30
            /\ Mentions(d, ACTION_WORDS) /\ Mentions(d, DIALOGUE_WORDS) =>
                  selector.duration = 45
\* a description with a contemplative and a dialogue keyword, and no action
\* keyword, got 20
C34_Witness ==
    /\ "duration" \in selector.done
    /\ ~Mentions(selector.scene_description, ACTION_WORDS)
    /\ Mentions(selector.scene_description, CONTEMPLATIVE_WORDS)
    /\ Mentions(selector.scene_description, DIALOGUE_WORDS)
    /\ selector.duration = 20

\* ------------------------------------------------------- dispatch of workers
\* the arguments of the generate_movie_scene tasks that wait in the broker
Dispatched ==
    {msg.arg : msg \in {x \in BagToSet(queue) : x.task = "generate_movie_scene"}}
\* C35: every task dispatched for a scene names the row of a scene, and a
\* scene that is in generating has a task in flight that names it (so that
\* a worker will find its record and end its generation).
C35_GeneratingSceneHasWorker ==
    stack = "api" =>
        /\ Dispatched \subseteq SceneIds
        /\ \A s \in SceneIds :
              scenes[s].status = "generating" => s \in Dispatched

\* C36: no scene ever has two tasks in flight at once.
C36_OneWorkerPerScene ==
    \A s \in SceneIds : CopiesIn(SceneTask(s), queue) <= 1

\* ------------------------------------------------------- movies and scenes
\* C37: a movie whose status is completed or failed has no scene in pending
\* or generating; in particular not the scene that the thread was at when it
\* aborted.
C37_TerminalMovieHasNoOpenScene ==
    \A m \in MovieIds :
        movies[m].status \in {"completed", "failed"} =>
            \A s \in ScenesOf(m) :
                scenes[s].status \notin {"pending", "generating"}

\* C39: a scene in completed has a storyboard, a video and an audio
\* reference, whichever operation made it completed.
C39_CompletedSceneHasArtifacts ==
    \A s \in SceneIds :
        scenes[s].status = "completed" =>
            /\ scenes[s].storyboard_url # None
            /\ scenes[s].video_url # None
            /\ scenes[s].audio_url # None

Next ==
    \/ \E script \in ApiScripts : CreateMovie(script)
    \/ \E h \in BagToSet(creators) : CreateDispatch(h)
    \/ \E h \in BagToSet(creators) : CreateCommit(h)
    \/ \E s \in 1..(Len(scenes) + 1), a \in UpdateActions : UpdateScene(s, a)
    \/ \E h \in BagToSet(updaters) : UpdateDispatch(h)
    \/ \E h \in BagToSet(updaters) : UpdateCommit(h)
    \/ \E m \in 1..(Len(movies) + 1) : FinalizeMovie(m)
    \/ \E h \in BagToSet(finalizers) : FinalizeDebit(h)
    \/ \E h \in BagToSet(finalizers) : FinalizeDispatch(h)
    \/ \E h \in BagToSet(finalizers) : FinalizeCommit(h)
    \/ \E msg \in BagToSet(queue) : GenerateMovieScene(msg)
    \/ \E msg \in BagToSet(queue) : GenerateFullMovie(msg)
    \/ \E script \in AppScripts : CreateMovieApi(script)
    \/ \E m \in DOMAIN threads : ThreadStart(m)
    \/ \E m \in DOMAIN threads : ThreadEmitStart(m)
    \/ \E m \in DOMAIN threads : ThreadSceneBegin(m)
    \/ \E m \in DOMAIN threads : ThreadEmitScene(m)
    \/ \E m \in DOMAIN threads : ThreadEmitStoryboard(m)
    \/ \E m \in DOMAIN threads : ThreadStoryboard(m)
    \/ \E m \in DOMAIN threads : ThreadEmitVideo(m)
    \/ \E m \in DOMAIN threads, v \in VideoResults : ThreadVideo(m, v)
    \/ \E m \in DOMAIN threads : ThreadEmitAudio(m)
    \/ \E m \in DOMAIN threads : ThreadAudio(m)
    \/ \E m \in DOMAIN threads : ThreadEmitCompleted(m)
    \/ \E m \in DOMAIN threads : ThreadFinish(m)
    \/ \E m \in DOMAIN threads : ThreadEmitFinish(m)
    \/ \E m \in DOMAIN threads : ThreadAbort(m)
    \/ \E m \in DOMAIN threads : ThreadEmitFailed(m)

Spec == Init /\ [][Next]_vars

\* ------------------------------------------------------- one long movie
\* The Flask application with a script of MaxLongScript scenes, which
\* _parse_script takes as it is from the collaborator's JSON answer, in a
\* deployment without the video pipeline: generate_video returns the sample
\* URL on every call.
LongScriptInit ==
    /\ Init
    /\ stack = "app"
    /\ credits = DEFAULT_CREDITS

LongScriptNext ==
    \/ \E script \in LongScripts : CreateMovieApi(script)
    \/ \E m \in DOMAIN threads : ThreadStart(m)
    \/ \E m \in DOMAIN threads : ThreadEmitStart(m)
    \/ \E m \in DOMAIN threads : ThreadSceneBegin(m)
    \/ \E m \in DOMAIN threads : ThreadEmitScene(m)
    \/ \E m \in DOMAIN threads : ThreadEmitStoryboard(m)
    \/ \E m \in DOMAIN threads : ThreadStoryboard(m)
    \/ \E m \in DOMAIN threads : ThreadEmitVideo(m)
    \/ \E m \in DOMAIN threads : ThreadVideo(m, SAMPLE_VIDEO)
    \/ \E m \in DOMAIN threads : ThreadEmitAudio(m)
    \/ \E m \in DOMAIN threads : ThreadAudio(m)
    \/ \E m \in DOMAIN threads : ThreadEmitCompleted(m)
    \/ \E m \in DOMAIN threads : ThreadFinish(m)
    \/ \E m \in DOMAIN threads : ThreadEmitFinish(m)
    \/ \E m \in DOMAIN threads : ThreadAbort(m)
    \/ \E m \in DOMAIN threads : ThreadEmitFailed(m)

LongScriptSpec == LongScriptInit /\ [][LongScriptNext]_vars

\* ------------------------------------------------- the script planner alone
\* One generate_script call of the deployed stack, for every answer of the
\* collaborator; the pipeline is idle.
PlannerInit ==
    /\ stack \in {"api", "app"}
    /\ credits = DEFAULT_CREDITS
    /\ initCredits = credits
    /\ movies = <<>> /\ scenes = <<>> /\ threads = <<>> /\ fin = <<>>
    /\ queue = EmptyBag /\ creators = EmptyBag
    /\ updaters = EmptyBag /\ finalizers = EmptyBag
    /\ resp = Response("none", 0)
    /\ nUpdates = 0
    /\ events = <<>>
    /\ selector = NoSelection
    /\ images = <<>>
    /\ socketio = NoSockets
    /\ assembler = NoAssembly
    /\ planner \in {[response |-> r, called |-> FALSE, result |-> <<>>] :
                       r \in IF stack = "api" THEN TextToScriptResponses
                                              ELSE AIModelsResponses}

TextToScriptGenerate ==
    /\ stack = "api"
    /\ ~planner.called
    /\ planner' = [planner EXCEPT !.called = TRUE,
                                  !.result = GenerateScript(planner.response)]
    /\ UNCHANGED <<standalone, stack, credits, movies, scenes, queue,
                   creators, updaters, finalizers, threads, resp,
                   initCredits, fin, nUpdates, events>>

AIModelsGenerate ==
    /\ stack = "app"
    /\ ~planner.called
    /\ planner' = [planner EXCEPT !.called = TRUE,
                                  !.result = AppGenerateScript(planner.response)]
    /\ UNCHANGED <<standalone, stack, credits, movies, scenes, queue,
                   creators, updaters, finalizers, threads, resp,
                   initCredits, fin, nUpdates, events>>

PlannerNext == TextToScriptGenerate \/ AIModelsGenerate

PlannerSpec == PlannerInit /\ [][PlannerNext]_vars
\* ---------------------------------------------- the selector on its own
\* scene descriptions and genres the selector is called with
Descriptions ==
    {"", "They walk home", "explorers land on a forest moon",
     "An explosion rocks the factory", "An explosion rocks the factory door",
     "A Battle in the quiet city", "The chase ends in a fight",
     "A scary night", "The robot drifts through space",
     "A flight over the ocean", "She says she remembers the fight",
     "He thinks, then asks why", "She tells him the plan"}
Genres == {"sci-fi", "Horror", "drama", "western"}

PipelineIdle ==
    /\ credits = DEFAULT_CREDITS
    /\ initCredits = credits
    /\ movies = <<>> /\ scenes = <<>> /\ threads = <<>> /\ fin = <<>>
    /\ queue = EmptyBag /\ creators = EmptyBag
    /\ updaters = EmptyBag /\ finalizers = EmptyBag
    /\ resp = Response("none", 0)
    /\ nUpdates = 0
    /\ events = <<>>
pipeline == <<stack, credits, movies, scenes, queue, creators, updaters,
              finalizers, threads, resp, initCredits, fin, nUpdates, events>>

SelectorInit ==
    /\ stack = "api"
    /\ PipelineIdle
    /\ planner = NoCall
    /\ images = <<>>
    /\ socketio = NoSockets
    /\ assembler = NoAssembly
    /\ selector \in {[NoSelection EXCEPT !.scene_description = d,
                                         !.movie_genre = g] :
                        d \in Descriptions, g \in Genres}

\* audio._analyze_scene_mood(scene_description, movie_genre)
AnalyzeSceneMoodCall ==
    /\ "mood" \notin selector.done
    /\ selector' = [selector EXCEPT
                      !.done = @ \cup {"mood"},
                      !.mood = AnalyzeSceneMood(selector.scene_description,
                                                selector.movie_genre)]
    /\ UNCHANGED <<assembler, pipeline, planner, images, socketio>>

\* sound_effects._analyze_scene_for_sound_effects(scene_description)
AnalyzeSceneForSoundEffectsCall ==
    /\ "sound_effects" \notin selector.done
    /\ selector' = [selector EXCEPT
                      !.done = @ \cup {"sound_effects"},
                      !.sound_effects =
                          AnalyzeSceneForSoundEffects(selector.scene_description)]
    /\ UNCHANGED <<assembler, pipeline, planner, images, socketio>>

\* audio.generate_scene_music(scene.description, movie.genre, scene_number)
GenerateSceneMusicCall(env) ==
    /\ "scene_music" \notin selector.done
    /\ selector' = [selector EXCEPT
                      !.done = @ \cup {"scene_music"},
                      !.scene_music =
                          GenerateSceneMusic(selector.scene_description,
                                             selector.movie_genre, env)]
    /\ UNCHANGED <<assembler, pipeline, planner, images, socketio>>

\* audio._calculate_scene_duration(scene_description)
CalculateSceneDurationCall ==
    /\ "duration" \notin selector.done
    /\ selector' = [selector EXCEPT
                      !.done = @ \cup {"duration"},
                      !.duration =
                          CalculateSceneDuration(selector.scene_description)]
    /\ UNCHANGED <<assembler, pipeline, planner, images, socketio>>

SelectorNext ==
    \/ AnalyzeSceneMoodCall
    \/ CalculateSceneDurationCall
    \/ AnalyzeSceneForSoundEffectsCall
    \/ \E env \in MusicEnvs : GenerateSceneMusicCall(env)

SelectorSpec == SelectorInit /\ [][SelectorNext]_vars
\* ------------------------------------- the image collaborator on its own
ImagesInit ==
    /\ stack \in {"api", "app"}
    /\ PipelineIdle
    /\ planner = NoCall
    /\ selector = NoSelection
    /\ images = <<>>
    /\ socketio = NoSockets
    /\ assembler = NoAssembly

\* one call of generate_storyboard, by the worker process `process`
GenerateStoryboard(scene_description, style, env, process) ==
    /\ Len(images) < MaxCalls
    /\ images' = Append(images,
          [scene_description |-> scene_description, style |-> style,
           env |-> env, process |-> process,
           result |-> IF stack = "api"
                      THEN StoryboardModelGenerate(scene_description, style,
                                                   env, process)
                      ELSE AIModelsGenerateStoryboard(scene_description,
                                                      style, env, process)])
    /\ UNCHANGED <<assembler, pipeline, planner, selector, socketio>>

ImagesNext ==
    \E d \in Prompts, style \in Styles, env \in ImageEnvs, p \in Processes :
        GenerateStoryboard(d, style, env, p)

ImagesSpec == ImagesInit /\ [][ImagesNext]_vars
\* --------------------------------------------- the socket handlers alone
ChannelInit ==
    /\ stack = "app"
    /\ PipelineIdle
    /\ planner = NoCall
    /\ selector = NoSelection
    /\ images = <<>>
    /\ socketio \in {[NoSockets EXCEPT !.user_id = o] :
                        o \in [ChannelMovies -> Users]}
    /\ assembler = NoAssembly

\* @socketio.on('connect'): the connection is accepted whoever connects
HandleConnect(sid, user) ==
    /\ sid \notin DOMAIN socketio.sessions
    /\ socketio' = [socketio EXCEPT
                      !.sessions = [x \in DOMAIN @ \cup {sid} |->
                                       IF x = sid THEN user ELSE @[x]]]
    /\ UNCHANGED <<assembler, pipeline, planner, selector, images>>

\* @socketio.on('disconnect'): the server drops the client from its rooms
HandleDisconnect(sid) ==
    /\ sid \in DOMAIN socketio.sessions
    /\ socketio' = [socketio EXCEPT
                      !.sessions = [x \in DOMAIN @ \ {sid} |-> @[x]],
                      !.rooms = {member \in @ : member[1] # sid}]
    /\ UNCHANGED <<assembler, pipeline, planner, selector, images>>

\* @socketio.on('join_movie')
HandleJoinMovie(sid, movie_id) ==
    /\ sid \in DOMAIN socketio.sessions
    /\ socketio' =
          IF /\ socketio.sessions[sid] # Anonymous
             /\ movie_id # NoMovieId
             /\ OwnsMovie(socketio.sessions[sid], movie_id)
          THEN [socketio EXCEPT !.rooms = @ \cup {<<sid, movie_id>>}]
          ELSE socketio
    /\ UNCHANGED <<assembler, pipeline, planner, selector, images>>

\* @socketio.on('leave_movie')
HandleLeaveMovie(sid, movie_id) ==
    /\ sid \in DOMAIN socketio.sessions
    /\ socketio' =
          IF socketio.sessions[sid] # Anonymous /\ movie_id # NoMovieId
          THEN [socketio EXCEPT !.rooms = @ \ {<<sid, movie_id>>}]
          ELSE socketio
    /\ UNCHANGED <<assembler, pipeline, planner, selector, images>>

ChannelNext ==
    \/ \E sid \in Sids, user \in Users \cup {Anonymous} : HandleConnect(sid, user)
    \/ \E sid \in Sids : HandleDisconnect(sid)
    \/ \E sid \in Sids, movie_id \in MovieIdsSent : HandleJoinMovie(sid, movie_id)
    \/ \E sid \in Sids, movie_id \in MovieIdsSent : HandleLeaveMovie(sid, movie_id)

ChannelSpec == ChannelInit /\ [][ChannelNext]_vars
\* ------------------------------ the assembler, statement by statement
AssemblerInit ==
    /\ stack = "api"
    /\ PipelineIdle
    /\ planner = NoCall
    /\ selector = NoSelection
    /\ images = <<>>
    /\ socketio = NoSockets
    /\ assembler = NoAssembly

\* generate_multi_scene_video_with_audio, lines 392-399
AssemblerStart(scenes_data, env) ==
    /\ assembler.pc = "idle"
    /\ assembler' =
          IF ~env.available
          THEN [assembler EXCEPT !.pc = "returned", !.scenes_data = scenes_data,
                                 !.env = env, !.result = PlaceholderUrl]
          ELSE [assembler EXCEPT !.pc = "loop", !.scenes_data = scenes_data,
                                 !.env = env, !.i = 1, !.dirs = {TempDir}]
    /\ UNCHANGED <<pipeline, planner, selector, images, socketio>>

\* lines 402-424: one turn of the loop
AssembleScene ==
    /\ assembler.pc = "loop"
    /\ assembler.i <= Len(assembler.scenes_data)
    /\ LET scene == assembler.scenes_data[assembler.i]
           scene_video_path ==
               AnimateSingleImage(scene, assembler.i, assembler.env)
           written == assembler.files \cup {scene_video_path}
           enhanced_video_path ==
               AddSoundEffectsToVideo(scene_video_path, written, TempDir,
                                      assembler.env)
           made == MadeByAnimation(scene, assembler.i, assembler.env)
       IN  assembler' =
              IF scene.storyboard_url = None
              THEN [assembler EXCEPT !.i = @ + 1]
              ELSE IF scene_video_path.dir = Remote
              THEN [assembler EXCEPT !.i = @ + 1, !.dirs = @ \cup made]
              ELSE [assembler EXCEPT
                        !.i = @ + 1,
                        !.dirs = @ \cup made,
                        !.files = written \cup {enhanced_video_path},
                        !.video_clips = Append(@, enhanced_video_path)]
    /\ UNCHANGED <<pipeline, planner, selector, images, socketio>>

\* lines 426-428
AssembleNoClips ==
    /\ assembler.pc = "loop"
    /\ assembler.i > Len(assembler.scenes_data)
    /\ assembler.video_clips = <<>>
    /\ assembler' = [assembler EXCEPT !.pc = "returned",
                                      !.result = PlaceholderUrl]
    /\ UNCHANGED <<pipeline, planner, selector, images, socketio>>

\* line 432, _stitch_videos_with_audio
AssembleStitch ==
    /\ assembler.pc = "loop"
    /\ assembler.i > Len(assembler.scenes_data)
    /\ assembler.video_clips # <<>>
    /\ LET final_video_path ==
               IF Len(assembler.video_clips) = 1 THEN assembler.video_clips[1]
               ELSE IF assembler.env.stitched
               THEN File(TempDir, STITCHED_VIDEO)
               ELSE NoFile
       IN  assembler' =
              [assembler EXCEPT
                  !.pc = "cleanup",
                  !.final_video_path = final_video_path,
                  !.files = IF final_video_path = NoFile THEN @
                            ELSE @ \cup {final_video_path}]
    /\ UNCHANGED <<pipeline, planner, selector, images, socketio>>

\* line 435
AssembleCleanup ==
    /\ assembler.pc = "cleanup"
    /\ assembler' = [assembler EXCEPT !.pc = "check",
                                      !.dirs = @ \ {TempDir},
                                      !.files = Rmtree(@, TempDir)]
    /\ UNCHANGED <<pipeline, planner, selector, images, socketio>>

\* lines 437-442
AssembleReturn ==
    /\ assembler.pc = "check"
    /\ assembler' =
          [assembler EXCEPT
              !.pc = "returned",
              !.result =
                  IF /\ assembler.final_video_path # NoFile
                     /\ assembler.final_video_path \in assembler.files
                  THEN assembler.final_video_path
                  ELSE PlaceholderUrl]
    /\ UNCHANGED <<pipeline, planner, selector, images, socketio>>

AssemblerNext ==
    \/ \E scenes_data \in ScenesDataInputs, env \in AssemblyEnvs :
          AssemblerStart(scenes_data, env)
    \/ AssembleScene
    \/ AssembleNoClips
    \/ AssembleStitch
    \/ AssembleCleanup
    \/ AssembleReturn

AssemblerSpec == AssemblerInit /\ [][AssemblerNext]_vars
====
